---------------------------- MODULE Spec2Model ----------------------------
(* Model of src/Project/centrality_analysis/src/main.rs: load_graph,      *)
(* compute_centralities and print_top.                                     *)
(*                                                                         *)
(* A line of text is a sequence of one-character strings.  An item of      *)
(* io::Lines is a record [ok, text]: ok = FALSE is the Err item the        *)
(* iterator yields for a line that is not valid UTF-8.                     *)
(* A petgraph Graph<usize, (), Undirected> is a record [nodes, edges]:     *)
(* nodes is the sequence of node weights (the position is the dense node   *)
(* index, counted from 1 here), edges the sequence of <<source, target>>   *)
(* index pairs in insertion order.                                         *)
(* An f64 is a fixed-point integer with Scale units for 1.0; NaN is a      *)
(* value of its own.                                                       *)
EXTENDS Integers, Sequences, FiniteSets

VARIABLES
    pc,              \* position in the function being run
    fileOpens,       \* whether File::open succeeds on the path
    file,            \* the items of the file (stored-input runs)
    pos,             \* number of items consumed from the file
    edges,           \* load_graph: the HashSet of normalised pairs
    accepted,        \* history: every (from, to) with nodes.len() == 2
    todo,            \* load_graph: pairs the second loop still has to visit
    node_map,        \* load_graph: external id -> dense index
    graph,           \* the AuthorGraph
    result,          \* load_graph's return: "none", "Ok", "Err"
    run,             \* which run of the pipeline (1 or 2)
    prevDegree,      \* the first run's degree mapping
    prevBetween,     \* the first run's path-sum mapping
    prevGraph,       \* the first run's graph
    degree_centrality,
    betweenness_centrality,
    centrality_values,
    eigenvector_centrality,
    iter,            \* iterations of the power loop started so far
    line,            \* the single line handed to the loop body
    lineEdges,       \* the pairs that line inserted
    centrality,      \* print_top's argument
    printed          \* the (author, score) entries print_top emitted

vars == <<pc, fileOpens, file, pos, edges, accepted, todo, node_map, graph,
          result, run, prevDegree, prevBetween, prevGraph, degree_centrality,
          betweenness_centrality, centrality_values, eigenvector_centrality,
          iter, line, lineEdges, centrality, printed>>

loadVars == <<fileOpens, file, pos, edges, accepted, todo, node_map, result>>
pipeVars == <<run, prevDegree, prevBetween, prevGraph>>
centVars == <<degree_centrality, betweenness_centrality, centrality_values,
              eigenvector_centrality, iter>>
lineVars == <<line, lineEdges>>
topVars  == <<centrality, printed>>

-----------------------------------------------------------------------------
(* Bounds of the model *)

MaxLineLen == 5      \* longest line handed to the loop body alone
FileLineLen == 4     \* longest line of a file read lazily
MaxLines == 2        \* most items read from a file read lazily
PipeLen == 3         \* most lines of a stored file
MaxNodes == 4        \* most nodes of a hand-built graph
MaxEntries == 11     \* most entries of a score mapping (above MaxPermLen: two scores)
MaxPermLen == 4      \* mappings up to this size: any scores, every order
Scale == 10000000    \* fixed-point units of the f64 value 1.0

-----------------------------------------------------------------------------
(* Sequences and sets *)

Range(s) == {s[i] : i \in DOMAIN s}

Min2(a, b) == IF a <= b THEN a ELSE b
Max2(a, b) == IF a >= b THEN a ELSE b

RECURSIVE SumOver(_, _)
SumOver(S, f) ==
    IF S = {} THEN 0
    ELSE LET x == CHOOSE y \in S : TRUE IN f[x] + SumOver(S \ {x}, f)

StringsUpTo(chars, n) == UNION {[1..k -> chars] : k \in 0..n}

EmptyMap == [x \in {} |-> 0]
EmptyGraph == [nodes |-> <<>>, edges |-> <<>>]

-----------------------------------------------------------------------------
(* Text: what load_graph does with one line (lines 25-38) *)

Whitespace == {" ", "\t"}
Digits == <<"0", "1", "2", "3", "4", "5", "6", "7", "8", "9">>

IsDigit(c) == \E d \in DOMAIN Digits : Digits[d] = c
DigitVal(c) == (CHOOSE d \in DOMAIN Digits : Digits[d] = c) - 1

\* str::starts_with(char)
starts_with(l, c) == Len(l) > 0 /\ l[1] = c

\* line.trim().is_empty()
trim_is_empty(l) == \A i \in DOMAIN l : l[i] \in Whitespace

\* Length of the longest prefix of l without whitespace.
TokenEnd(l) ==
    IF \E i \in DOMAIN l : l[i] \in Whitespace
    THEN (CHOOSE i \in DOMAIN l :
              l[i] \in Whitespace /\ \A j \in 1..(i - 1) : l[j] \notin Whitespace) - 1
    ELSE Len(l)

\* str::split_whitespace: the maximal runs of non-whitespace, in order.
RECURSIVE split_whitespace(_)
split_whitespace(l) ==
    IF l = <<>> THEN <<>>
    ELSE IF Head(l) \in Whitespace THEN split_whitespace(Tail(l))
    ELSE LET n == TokenEnd(l)
         IN  <<SubSeq(l, 1, n)>> \o split_whitespace(SubSeq(l, n + 1, Len(l)))

RECURSIVE DigitsValue(_)
DigitsValue(ds) ==
    IF ds = <<>> THEN 0
    ELSE DigitsValue(SubSeq(ds, 1, Len(ds) - 1)) * 10 + DigitVal(ds[Len(ds)])

\* str::parse::<usize>: an optional '+', then one or more decimal digits.
\* (A value above usize::MAX is an Err too; no token of the model is that long.)
parse_usize(tok) ==
    LET ds == IF starts_with(tok, "+") THEN Tail(tok) ELSE tok
    IN  IF ds # <<>> /\ \A i \in DOMAIN ds : IsDigit(ds[i])
        THEN [ok |-> TRUE, val |-> DigitsValue(ds)]
        ELSE [ok |-> FALSE, val |-> 0]

\* .filter_map(|x| x.parse::<usize>().ok()).collect(): the tokens that parse,
\* the others dropped.
RECURSIVE filter_map_parse(_)
filter_map_parse(toks) ==
    IF toks = <<>> THEN <<>>
    ELSE LET r == parse_usize(Head(toks))
         IN  (IF r.ok THEN <<r.val>> ELSE <<>>) \o filter_map_parse(Tail(toks))

LineNodes(l) == filter_map_parse(split_whitespace(l))

\* The `continue` of line 25.
LineSkipped(l) == starts_with(l, "#") \/ trim_is_empty(l)

\* The (from, to) of line 34, when the line gets there.
LinePairs(l) ==
    IF ~LineSkipped(l) /\ Len(LineNodes(l)) = 2
    THEN {<<LineNodes(l)[1], LineNodes(l)[2]>>}
    ELSE {}

\* Variant for the sensitivity of C1: the pair kept as read.
NormalizeEdgeKeepOrder(from, to) == <<from, to>>

\* (from.min(to), from.max(to))
NormalizeEdge(from, to) == <<Min2(from, to), Max2(from, to)>>

\* What the line inserts into `edges` (lines 35-37).
LineInsert(l) ==
    {NormalizeEdge(p[1], p[2]) : p \in {q \in LinePairs(l) : q[1] # q[2]}}

-----------------------------------------------------------------------------
(* petgraph: the operations load_graph and compute_centralities use *)

MapPut(m, k, v) == [x \in DOMAIN m \cup {k} |-> IF x = k THEN v ELSE m[x]]

add_node(g, w) == [g EXCEPT !.nodes = Append(g.nodes, w)]
add_edge(g, a, b) == [g EXCEPT !.edges = Append(g.edges, <<a, b>>)]
node_indices(g) == DOMAIN g.nodes
node_count(g) == Len(g.nodes)
edge_count(g) == Len(g.edges)

\* node_map.entry(id).or_insert_with(|| graph.add_node(id)): the map, the
\* graph and the index afterwards.
EntryOrInsert(m, g, id) ==
    IF id \in DOMAIN m
    THEN [map |-> m, graph |-> g, index |-> m[id]]
    ELSE [map |-> MapPut(m, id, Len(g.nodes) + 1),
          graph |-> add_node(g, id),
          index |-> Len(g.nodes) + 1]

-----------------------------------------------------------------------------
(* load_graph (lines 17-49) *)

LineChars == {"1", "2", " ", "#", "x"}
FileChars == {"1", "2", " ", "#"}
PipeDigits == {"1", "2", "3"}

OkItem(l) == [ok |-> TRUE, text |-> l]
ErrItem == [ok |-> FALSE, text |-> <<>>]

FileItems == {OkItem(l) : l \in StringsUpTo(FileChars, FileLineLen)} \cup {ErrItem}
PipeItems == {OkItem(<<a, " ", b>>) : a \in PipeDigits, b \in PipeDigits}
PipeFiles == UNION {[1..k -> PipeItems] : k \in 0..PipeLen}

LoadStart ==
    /\ pc = "open"
    /\ pos = 0
    /\ edges = {}
    /\ accepted = {}
    /\ todo = {}
    /\ node_map = EmptyMap
    /\ graph = EmptyGraph
    /\ result = "none"

Idle ==
    /\ run = 1
    /\ prevDegree = EmptyMap
    /\ prevBetween = EmptyMap
    /\ prevGraph = EmptyGraph
    /\ degree_centrality = EmptyMap
    /\ betweenness_centrality = EmptyMap
    /\ centrality_values = EmptyMap
    /\ eigenvector_centrality = EmptyMap
    /\ iter = 0
    /\ line = <<>>
    /\ lineEdges = {}
    /\ centrality = EmptyMap
    /\ printed = <<>>

\* read_lines (lines 163-169) under the `if let Ok(lines)` of line 22: an Err
\* of File::open skips the whole block.
OpenFile ==
    /\ pc = "open"
    /\ pc' = IF fileOpens THEN "read" ELSE "return"
    /\ UNCHANGED <<loadVars, graph, pipeVars, centVars, lineVars, topVars>>

\* One pass of the loop of lines 23-39 on the item `it`.
ReadItem(it) ==
    /\ pos' = pos + 1
    /\ IF ~it.ok
       THEN \* `line?` returns the Err
            /\ result' = "Err"
            /\ pc' = "done"
            /\ UNCHANGED <<edges, accepted>>
       ELSE /\ edges' = edges \cup LineInsert(it.text)
            /\ accepted' = accepted \cup LinePairs(it.text)
            /\ UNCHANGED <<result, pc>>
    /\ UNCHANGED <<fileOpens, file, todo, node_map, graph, pipeVars, centVars,
                   lineVars, topVars>>

\* The next item of a file whose content is chosen as it is read.
ReadNext ==
    /\ pc = "read"
    /\ file = <<>>
    /\ pos < MaxLines
    /\ \E it \in FileItems : ReadItem(it)

\* The next item of a stored file.
ReadStored ==
    /\ pc = "read"
    /\ pos < Len(file)
    /\ ReadItem(file[pos + 1])

\* The iterator is exhausted: on to the loop of line 41.
EndOfFile ==
    /\ pc = "read"
    /\ pos >= Len(file)
    /\ pc' = "build"
    /\ todo' = edges
    /\ UNCHANGED <<fileOpens, file, pos, edges, accepted, node_map, graph, result,
                   pipeVars, centVars, lineVars, topVars>>

\* One pass of the loop of lines 41-45; the HashSet hands out its pairs in
\* any order.
BuildEdge ==
    /\ pc = "build"
    /\ \E e \in todo :
         LET f == EntryOrInsert(node_map, graph, e[1])
             t == EntryOrInsert(f.map, f.graph, e[2])
         IN  /\ node_map' = t.map
             /\ graph' = add_edge(t.graph, f.index, t.index)
             /\ todo' = todo \ {e}
    /\ UNCHANGED <<pc, fileOpens, file, pos, edges, accepted, result, pipeVars,
                   centVars, lineVars, topVars>>

BuildDone ==
    /\ pc = "build"
    /\ todo = {}
    /\ pc' = "return"
    /\ UNCHANGED <<loadVars, graph, pipeVars, centVars, lineVars, topVars>>

\* Ok(graph), line 48.
ReturnOk ==
    /\ pc = "return"
    /\ result' = "Ok"
    /\ pc' = "done"
    /\ UNCHANGED <<fileOpens, file, pos, edges, accepted, todo, node_map, graph,
                   pipeVars, centVars, lineVars, topVars>>

InitLoad ==
    /\ fileOpens \in BOOLEAN
    /\ file = <<>>
    /\ LoadStart
    /\ Idle

NextLoad ==
    \/ OpenFile
    \/ ReadNext
    \/ EndOfFile
    \/ BuildEdge
    \/ BuildDone
    \/ ReturnOk

SpecLoad == InitLoad /\ [][NextLoad]_vars

-----------------------------------------------------------------------------
(* The loop body of load_graph on one line *)

LoopBody ==
    /\ pc = "line"
    /\ lineEdges' = LineInsert(line)
    /\ pc' = "lineDone"
    /\ UNCHANGED <<line, loadVars, graph, pipeVars, centVars, topVars>>

InitLine ==
    /\ line \in StringsUpTo(LineChars, MaxLineLen)
    /\ lineEdges = {}
    /\ pc = "line"
    /\ fileOpens = TRUE
    /\ file = <<>>
    /\ pos = 0 /\ edges = {} /\ accepted = {} /\ todo = {}
    /\ node_map = EmptyMap /\ graph = EmptyGraph /\ result = "none"
    /\ run = 1 /\ prevDegree = EmptyMap /\ prevBetween = EmptyMap
    /\ prevGraph = EmptyGraph
    /\ degree_centrality = EmptyMap /\ betweenness_centrality = EmptyMap
    /\ centrality_values = EmptyMap /\ eigenvector_centrality = EmptyMap
    /\ iter = 0 /\ centrality = EmptyMap /\ printed = <<>>

NextLine == LoopBody

SpecLine == InitLine /\ [][NextLine]_vars

-----------------------------------------------------------------------------
(* petgraph: edges(node) and dijkstra *)

\* graph.edges(node) of an undirected graph: every edge with an end at node,
\* a self-loop once.
EdgeRefs(g, node) ==
    {k \in DOMAIN g.edges : g.edges[k][1] = node \/ g.edges[k][2] = node}

OutgoingRefs(g, node) == {k \in DOMAIN g.edges : g.edges[k][1] = node}

\* edge.target() of an edge handed out by graph.edges(node): the other end.
EdgeTarget(g, node, k) ==
    IF g.edges[k][1] = node THEN g.edges[k][2] ELSE g.edges[k][1]

\* petgraph::algo::dijkstra(graph, start, None, |_| 1): the loop on the
\* binary heap of (score, node), smallest score first.
RECURSIVE DijkstraLoop(_, _, _, _)
DijkstraLoop(g, visit_next, visited, scores) ==
    IF visit_next = {} THEN scores
    ELSE LET top == CHOOSE h \in visit_next : \A o \in visit_next : h[1] <= o[1]
             node_score == top[1]
             node == top[2]
             rest == visit_next \ {top}
         IN  IF node \in visited THEN DijkstraLoop(g, rest, visited, scores)
             ELSE LET targets == {EdgeTarget(g, node, k) : k \in EdgeRefs(g, node)}
                                     \ visited
                      next_score == node_score + 1
                      better == {t \in targets :
                                    t \notin DOMAIN scores \/ next_score < scores[t]}
                      scores2 == [x \in DOMAIN scores \cup better |->
                                     IF x \in better THEN next_score ELSE scores[x]]
                  IN  DijkstraLoop(g,
                                   rest \cup {<<next_score, t>> : t \in better},
                                   visited \cup {node},
                                   scores2)

dijkstra(g, start) ==
    DijkstraLoop(g, {<<0, start>>}, {}, [x \in {start} |-> 0])

-----------------------------------------------------------------------------
(* f64 in fixed point.  A product of two values needs more than TLC's 32    *)
(* bits: it is kept as <<hi, lo>>, worth hi * Big + lo.                     *)

NaN == -1
Limb == 10000
Big == 100000000

\* a * b for 0 <= a, b < Big
BigMul(a, b) ==
    LET a1 == a \div Limb  a0 == a % Limb
        b1 == b \div Limb  b0 == b % Limb
        mid == a1 * b0 + a0 * b1
        low == a0 * b0 + (mid % Limb) * Limb
    IN  <<a1 * b1 + (mid \div Limb) + (low \div Big), low % Big>>

BigAdd(x, y) ==
    LET low == x[2] + y[2]
    IN  <<x[1] + y[1] + (low \div Big), low % Big>>

BigLeq(x, y) == x[1] < y[1] \/ (x[1] = y[1] /\ x[2] <= y[2])

\* The largest m in lo..hi with m * m <= q (lo * lo <= q is given).
RECURSIVE SqrtSearch(_, _, _)
SqrtSearch(q, lo, hi) ==
    IF lo >= hi THEN lo
    ELSE LET m == lo + (hi - lo + 1) \div 2
         IN  IF BigLeq(BigMul(m, m), q) THEN SqrtSearch(q, m, hi)
             ELSE SqrtSearch(q, lo, m - 1)

\* f64::sqrt, rounded down to the fixed-point grid.
ISqrt(q) == SqrtSearch(q, 0, Big - 1)

\* <<quotient, remainder>> of v * s by n, for 0 <= v, n > 0 and
\* 10 * n + 9 * v within 32 bits: long division over the decimal digits of s.
RECURSIVE MulDivRem(_, _, _)
MulDivRem(v, s, n) ==
    IF s = 0 THEN <<0, 0>>
    ELSE LET p == MulDivRem(v, s \div 10, n)
             r == 10 * p[2] + (s % 10) * v
         IN  <<10 * p[1] + (r \div n), r % n>>

\* value / norm on f64, rounded down to the grid.  0.0 / 0.0 is NaN; a value
\* above 0 never meets a norm of 0, the norm being at least every value.
FDiv(v, n) == IF n = 0 THEN NaN ELSE MulDivRem(v, Scale, n)[1]

\* (a - b).abs(): NaN when either is.
FAbsDiff(a, b) ==
    IF a = NaN \/ b = NaN THEN NaN
    ELSE IF a >= b THEN a - b ELSE b - a

\* f64::max: the other operand when one is NaN.
f64_max(a, b) ==
    IF b = NaN THEN a ELSE IF a = NaN THEN b ELSE Max2(a, b)

\* `value as usize`: NaN casts to 0.
as_usize(v) == IF v = NaN THEN 0 ELSE v

RECURSIVE SumSquares(_, _)
SumSquares(S, f) ==
    IF S = {} THEN <<0, 0>>
    ELSE LET x == CHOOSE y \in S : TRUE
         IN  BigAdd(BigMul(f[x], f[x]), SumSquares(S \ {x}, f))

RECURSIVE FoldMax(_, _, _)
FoldMax(S, f, acc) ==
    IF S = {} THEN acc
    ELSE LET x == CHOOSE y \in S : TRUE
         IN  FoldMax(S \ {x}, f, f64_max(acc, f[x]))

-----------------------------------------------------------------------------
(* compute_centralities (lines 53-122) *)

num_iterations == 100
ToleranceInv == 1000000
DisplayScale == 1000000

\* tolerance = 1e-6
tolerance == Scale \div ToleranceInv

\* Variant for the sensitivity of C9: the dense index as the key.
KeyOfIndex(g, node) == node

\* graph[node]: the external id the node carries.
KeyOf(g, node) == g.nodes[node]

Keys(g) == {KeyOf(g, n) : n \in node_indices(g)}

\* A HashMap filled by insert(key of node, val[node]) over node_indices in
\* order: the last insert of a key stays.
Collected(g, val) ==
    [k \in Keys(g) |->
        LET last == CHOOSE n \in node_indices(g) :
                        /\ KeyOf(g, n) = k
                        /\ \A o \in node_indices(g) : KeyOf(g, o) = k => o <= n
        IN  val[last]]

\* Variant for the sensitivity of C6: the edges that start at the node only.
DegreeOutgoingOnly(g, node) == Cardinality(OutgoingRefs(g, node))

\* graph.edges(node).count()
DegreeOf(g, node) == Cardinality(EdgeRefs(g, node))

\* Variant for the sensitivity of C7: the number of distances, not their sum.
TotalDistanceCount(g, node) == Cardinality(DOMAIN dijkstra(g, node))

\* distances.values().sum()
TotalDistance(g, node) ==
    LET distances == dijkstra(g, node)
    IN  SumOver(DOMAIN distances, distances)

\* Lines 58-61.
ComputeDegree ==
    /\ pc = "degree"
    /\ degree_centrality' =
           Collected(graph, [n \in node_indices(graph) |-> DegreeOf(graph, n)])
    /\ pc' = "between"
    /\ UNCHANGED <<loadVars, graph, pipeVars, betweenness_centrality,
                   centrality_values, eigenvector_centrality, iter, lineVars,
                   topVars>>

\* Lines 63-74: the path sums, and every eigenvector value set to 1.0.
ComputeBetweenness ==
    /\ pc = "between"
    /\ betweenness_centrality' =
           Collected(graph, [n \in node_indices(graph) |-> TotalDistance(graph, n)])
    /\ centrality_values' = [k \in Keys(graph) |-> Scale]
    /\ iter' = 0
    /\ pc' = "eigen"
    /\ UNCHANGED <<loadVars, graph, pipeVars, degree_centrality,
                   eigenvector_centrality, lineVars, topVars>>

\* Lines 81-87: the clone with every node's entry replaced by the sum of its
\* neighbours' current values.
NeighbourSums(g, values) ==
    LET sums == Collected(g, [n \in node_indices(g) |->
                    SumOver(EdgeRefs(g, n),
                            [k \in EdgeRefs(g, n) |->
                                values[KeyOf(g, EdgeTarget(g, n, k))]])])
    IN  [k \in DOMAIN values |-> IF k \in DOMAIN sums THEN sums[k] ELSE values[k]]

\* Variant for the sensitivity of C10: the sum of the values as the norm.
NormL1(values) == SumOver(DOMAIN values, values)

\* Line 90: the square root of the sum of the squares.
Norm(values) == ISqrt(SumSquares(DOMAIN values, values))

\* Lines 91-93.
Normalized(values) ==
    LET norm == Norm(values)
    IN  [k \in DOMAIN values |-> FDiv(values[k], norm)]

\* Lines 96-99.
MaxDifference(old, new) ==
    FoldMax(DOMAIN old, [k \in DOMAIN old |-> FAbsDiff(old[k], new[k])], 0)

\* One pass of the loop of lines 78-106.
PowerStep ==
    /\ pc = "eigen"
    /\ iter < num_iterations
    /\ LET next_centrality_values == Normalized(NeighbourSums(graph, centrality_values))
           max_difference == MaxDifference(centrality_values, next_centrality_values)
       IN  IF max_difference < tolerance
           THEN \* break
                /\ pc' = "store"
                /\ UNCHANGED <<centrality_values, iter>>
           ELSE /\ centrality_values' = next_centrality_values
                /\ iter' = iter + 1
                /\ pc' = IF iter + 1 = num_iterations THEN "store" ELSE "eigen"
    /\ UNCHANGED <<loadVars, graph, pipeVars, degree_centrality,
                   betweenness_centrality, eigenvector_centrality, lineVars, topVars>>

\* Lines 109-111: (value * 1_000_000.0) as usize.  The three print_top calls
\* that follow write to the terminal only.
StoreEigenvector ==
    /\ pc = "store"
    /\ eigenvector_centrality' =
           [k \in DOMAIN centrality_values |->
               IF centrality_values[k] = NaN THEN as_usize(NaN)
               ELSE as_usize(MulDivRem(centrality_values[k], DisplayScale, Scale)[1])]
    /\ pc' = "computed"
    /\ UNCHANGED <<loadVars, graph, pipeVars, degree_centrality,
                   betweenness_centrality, centrality_values, iter, lineVars,
                   topVars>>

\* The simple graphs on up to MaxNodes nodes, the node of index i carrying
\* the id i + 1, or the ids n .. 1 in falling order.
PairsBelow(n) == {p \in (1..n) \X (1..n) : p[1] < p[2]}

RECURSIVE SetToSeq(_)
SetToSeq(S) ==
    IF S = {} THEN <<>>
    ELSE LET x == CHOOSE y \in S : \A z \in S : y[1] < z[1] \/ (y[1] = z[1] /\ y[2] <= z[2])
         IN  <<x>> \o SetToSeq(S \ {x})

BuiltGraphs ==
    UNION {
        {[nodes |-> w, edges |-> SetToSeq(E)] :
            w \in {[i \in 1..n |-> i + 1], [i \in 1..n |-> n + 1 - i]},
            E \in SUBSET PairsBelow(n)}
        : n \in 0..MaxNodes}

InitCent ==
    /\ graph \in BuiltGraphs
    /\ pc = "degree"
    /\ fileOpens = TRUE
    /\ file = <<>>
    /\ pos = 0 /\ edges = {} /\ accepted = {} /\ todo = {}
    /\ node_map = EmptyMap /\ result = "none"
    /\ Idle

NextCent ==
    \/ ComputeDegree
    \/ ComputeBetweenness
    \/ PowerStep
    \/ StoreEigenvector

SpecCent == InitCent /\ [][NextCent]_vars

-----------------------------------------------------------------------------
(* Claims about compute_centralities, under SpecCent *)

\* The edges of g with an end at the node that carries `id`.
IncidentEdges(g, id) ==
    {k \in DOMAIN g.edges :
        g.nodes[g.edges[k][1]] = id \/ g.nodes[g.edges[k][2]] = id}

\* Ids joined to `id` by an edge.
AdjacentIds(g, id) ==
    {g.nodes[g.edges[k][1]] : k \in IncidentEdges(g, id)}
        \cup {g.nodes[g.edges[k][2]] : k \in IncidentEdges(g, id)}

\* Ids that a walk of at most k edges from `id` ends at.
RECURSIVE Within(_, _, _)
Within(g, id, k) ==
    IF k = 0 THEN {id}
    ELSE LET W == Within(g, id, k - 1)
         IN  W \cup UNION {AdjacentIds(g, w) : w \in W}

\* Number of edges of a shortest path from a to b, b reachable from a.
PathLength(g, a, b) ==
    CHOOSE k \in 0..node_count(g) :
        /\ b \in Within(g, a, k)
        /\ k > 0 => b \notin Within(g, a, k - 1)

PathSum(g, a) ==
    LET R == Within(g, a, node_count(g))
    IN  SumOver(R, [b \in R |-> PathLength(g, a, b)])

\* C5: on a non-empty graph without edges (the norm of the next values is
\* zero) every final eigenvector value is 0: not NaN, not the initial 1.0.
C5_ZeroNormGivesZero ==
    (pc = "computed" /\ node_count(graph) > 0 /\ edge_count(graph) = 0)
        => /\ \A k \in DOMAIN centrality_values : centrality_values[k] = 0
           /\ \A k \in DOMAIN eigenvector_centrality : eigenvector_centrality[k] = 0

\* C6: the degree mapping gives every external id the number of edges at its
\* node, and its values add up to twice the number of edges.
C6_DegreeIsIncidentCount ==
    pc \notin {"degree"} =>
        /\ DOMAIN degree_centrality = Range(graph.nodes)
        /\ \A id \in DOMAIN degree_centrality :
               degree_centrality[id] = Cardinality(IncidentEdges(graph, id))
        /\ SumOver(DOMAIN degree_centrality, degree_centrality)
               = 2 * edge_count(graph)

C6_Witness ==
    /\ pc = "computed"
    /\ edge_count(graph) >= 3
    /\ \E a, b \in DOMAIN degree_centrality :
           degree_centrality[a] = 0 /\ degree_centrality[b] >= 2

\* C7: the path-sum mapping gives every external id the sum of the lengths
\* of the shortest paths from its node to each node reachable from it, when
\* compute_centralities is through.
C7_PathSumIsTotalDistance ==
    pc = "computed" =>
        /\ DOMAIN betweenness_centrality = Range(graph.nodes)
        /\ \A id \in DOMAIN betweenness_centrality :
               betweenness_centrality[id] = PathSum(graph, id)

\* The path 3 - 2 - 1 (ids): 2 for the middle node, 3 for the two ends.
C7_Witness ==
    /\ pc = "computed"
    /\ graph = [nodes |-> <<3, 2, 1>>, edges |-> <<<<1, 2>>, <<2, 3>>>>]
    /\ betweenness_centrality = [id \in {1, 2, 3} |-> IF id = 2 THEN 2 ELSE 3]

\* C10: on a graph with at least one edge the final eigenvector values have
\* Euclidean norm 1.0 within 1e-6, however the loop ended.
C10_UnitNorm ==
    (pc = "computed" /\ edge_count(graph) >= 1) =>
        LET q == SumSquares(DOMAIN centrality_values, centrality_values)
        IN  /\ \A k \in DOMAIN centrality_values : centrality_values[k] # NaN
            /\ BigLeq(BigMul(Scale - tolerance, Scale - tolerance), q)
            /\ BigLeq(q, BigMul(Scale + tolerance, Scale + tolerance))

\* The loop ran into the cap of 100 iterations.
C10_Witness ==
    /\ pc = "computed"
    /\ edge_count(graph) >= 1
    /\ iter = num_iterations

-----------------------------------------------------------------------------
(* main (lines 181-190), run twice on the same stored file *)

\* Ok(graph) => compute_centralities(&graph)
StartCompute ==
    /\ pc = "done"
    /\ result = "Ok"
    /\ pc' = "degree"
    /\ UNCHANGED <<loadVars, graph, pipeVars, centVars, lineVars, topVars>>

\* The second run starts once the first has its degree and path-sum
\* mappings; the eigenvector loop writes neither.
Rerun ==
    /\ pc = "eigen"
    /\ run = 1
    /\ run' = 2
    /\ prevDegree' = degree_centrality
    /\ prevBetween' = betweenness_centrality
    /\ prevGraph' = graph
    /\ pc' = "open"
    /\ pos' = 0
    /\ edges' = {}
    /\ accepted' = {}
    /\ todo' = {}
    /\ node_map' = EmptyMap
    /\ graph' = EmptyGraph
    /\ result' = "none"
    /\ degree_centrality' = EmptyMap
    /\ betweenness_centrality' = EmptyMap
    /\ centrality_values' = EmptyMap
    /\ UNCHANGED <<fileOpens, file, eigenvector_centrality, iter, lineVars, topVars>>

InitPipe ==
    /\ fileOpens \in BOOLEAN
    /\ file \in PipeFiles
    /\ LoadStart
    /\ Idle

NextPipe ==
    \/ OpenFile
    \/ ReadStored
    \/ EndOfFile
    \/ BuildEdge
    \/ BuildDone
    \/ ReturnOk
    \/ StartCompute
    \/ ComputeDegree
    \/ ComputeBetweenness
    \/ Rerun

SpecPipe == InitPipe /\ [][NextPipe]_vars

-----------------------------------------------------------------------------
(* print_top (lines 125-131) *)

TopK == 10
Scores == {1, 3, 5}
UpperScores == {3, 5}

\* Variant for the sensitivity of C8: a.1.cmp(b.1).
LessAscending(a, b) == a[2] < b[2]

\* The comparator |a, b| b.1.cmp(a.1): a sorts before b when b's score is
\* the smaller.
Less(a, b) == b[2] < a[2]

\* x put into the sorted sequence s behind every entry it does not sort
\* before: slice::sort_by is stable.
InsertSorted(s, x) ==
    LET after == {i \in DOMAIN s : Less(x, s[i])}
        at == IF after = {} THEN Len(s) + 1
              ELSE CHOOSE i \in after : \A j \in after : i <= j
    IN  SubSeq(s, 1, at - 1) \o <<x>> \o SubSeq(s, at, Len(s))

RECURSIVE sort_by(_)
sort_by(v) ==
    IF v = <<>> THEN <<>>
    ELSE InsertSorted(sort_by(SubSeq(v, 1, Len(v) - 1)), v[Len(v)])

\* .iter().take(n)
Take(s, n) == SubSeq(s, 1, Min2(n, Len(s)))

Permutations(S) ==
    {p \in [1..Cardinality(S) -> S] : \A i, j \in DOMAIN p : i # j => p[i] # p[j]}

RECURSIVE Ascending(_)
Ascending(S) ==
    IF S = {} THEN <<>>
    ELSE LET x == CHOOSE y \in S : \A z \in S : y <= z
         IN  <<x>> \o Ascending(S \ {x})

Reversed(s) == [i \in DOMAIN s |-> s[Len(s) + 1 - i]]

\* The orders HashMap::iter may hand the keys out in: every order for a
\* small map, the rising and the falling one for a larger.
IterOrders(S) ==
    IF Cardinality(S) <= MaxPermLen THEN Permutations(S)
    ELSE {Ascending(S), Reversed(Ascending(S))}

print_top(m, order) ==
    LET centrality_vec == [i \in DOMAIN order |-> <<order[i], m[order[i]]>>]
    IN  Take(sort_by(centrality_vec), TopK)

\* The score mappings print_top is given: up to MaxPermLen keys with any of
\* the scores, more keys with the two upper scores.
ScoreMaps ==
    UNION {[1..n -> Scores] : n \in 0..MaxPermLen}
        \cup UNION {[1..n -> UpperScores] : n \in (MaxPermLen + 1)..MaxEntries}

\* print_top called with any score mapping.
PrintTop ==
    /\ pc = "top"
    /\ \E m \in ScoreMaps :
         \E order \in IterOrders(DOMAIN m) :
             /\ centrality' = m
             /\ printed' = print_top(m, order)
    /\ pc' = "topDone"
    /\ UNCHANGED <<loadVars, graph, pipeVars, centVars, lineVars>>

InitTop ==
    /\ centrality = EmptyMap
    /\ printed = <<>>
    /\ pc = "top"
    /\ fileOpens = TRUE
    /\ file = <<>>
    /\ pos = 0 /\ edges = {} /\ accepted = {} /\ todo = {}
    /\ node_map = EmptyMap /\ graph = EmptyGraph /\ result = "none"
    /\ run = 1 /\ prevDegree = EmptyMap /\ prevBetween = EmptyMap
    /\ prevGraph = EmptyGraph
    /\ degree_centrality = EmptyMap /\ betweenness_centrality = EmptyMap
    /\ centrality_values = EmptyMap /\ eigenvector_centrality = EmptyMap
    /\ iter = 0 /\ line = <<>> /\ lineEdges = {}

NextTop == PrintTop

SpecTop == InitTop /\ [][NextTop]_vars

-----------------------------------------------------------------------------
(* Claims about load_graph, under SpecLoad and SpecLine *)

\* The accepted pairs (a, b) with a # b, their ids and their unordered pairs.
ProperPairs == {p \in accepted : p[1] # p[2]}
ExpectedIds == {p[1] : p \in ProperPairs} \cup {p[2] : p \in ProperPairs}
ExpectedLinks == {{p[1], p[2]} : p \in ProperPairs}

\* The ids at the two ends of edge k.
EdgeEnds(g, k) == {g.nodes[g.edges[k][1]], g.nodes[g.edges[k][2]]}

\* C1: the returned graph has one node per id of an accepted pair (a, b)
\* with a # b and one edge per unordered pair {a, b} of them: no self-loop,
\* no second edge between two nodes, no other node or edge.
C1_OneNodePerIdOneEdgePerPair ==
    (pc = "done" /\ result = "Ok") =>
        /\ Range(graph.nodes) = ExpectedIds
        /\ \A id \in ExpectedIds :
               Cardinality({n \in node_indices(graph) : graph.nodes[n] = id}) = 1
        /\ \A k \in DOMAIN graph.edges : EdgeEnds(graph, k) \in ExpectedLinks
        /\ \A l \in ExpectedLinks :
               Cardinality({k \in DOMAIN graph.edges : EdgeEnds(graph, k) = l}) = 1

\* A pair read in both orientations, kept as one edge.
C1_Witness ==
    /\ pc = "done"
    /\ result = "Ok"
    /\ \E p \in accepted : p[1] # p[2] /\ <<p[2], p[1]>> \in accepted
    /\ edge_count(graph) = 1
    /\ node_count(graph) = 2

\* C2: a file that cannot be opened makes load_graph return Err.
C2_OpenFailureIsErr ==
    (pc = "done" /\ ~fileOpens) => result = "Err"

\* A token that is a non-negative integer; a line of exactly two of them.
IsInteger(tok) == tok # <<>> /\ \A i \in DOMAIN tok : IsDigit(tok[i])

TwoIntegers(l) ==
    LET toks == split_whitespace(l)
    IN  Len(toks) = 2 /\ IsInteger(toks[1]) /\ IsInteger(toks[2])

\* C3: a line adds an edge only if it is exactly two whitespace-separated
\* tokens, both non-negative integers (and does not start with '#').
C3_OnlyTwoIntegerLines ==
    (pc = "lineDone" /\ lineEdges # {}) =>
        (~starts_with(line, "#") /\ TwoIntegers(line))

\* C4: once the file is open, load_graph returns Ok whatever the content.
C4_ContentNeverFails ==
    (pc = "done" /\ fileOpens) => result = "Ok"

-----------------------------------------------------------------------------
(* Claim about the pipeline, under SpecPipe *)

\* C9: the second run on the same file ends with the degree and path-sum
\* mappings of the first, whatever order the pairs were handed out in.
C9_SameMappingsOnRerun ==
    (run = 2 /\ pc = "eigen") =>
        /\ degree_centrality = prevDegree
        /\ betweenness_centrality = prevBetween

\* The two runs gave the nodes different dense indices.
C9_Witness ==
    /\ run = 2
    /\ pc = "eigen"
    /\ edge_count(graph) >= 2
    /\ graph.nodes # prevGraph.nodes
    /\ \E a, b \in DOMAIN betweenness_centrality :
           betweenness_centrality[a] # betweenness_centrality[b]

-----------------------------------------------------------------------------
(* Claim about print_top, under SpecTop *)

PrintedKeys == {printed[i][1] : i \in DOMAIN printed}

\* C8: print_top emits min(10, size) entries of the mapping, each key once,
\* in non-increasing score order, none scoring below an entry left out.
C8_TopEntriesDescending ==
    pc = "topDone" =>
        /\ Len(printed) = Min2(TopK, Cardinality(DOMAIN centrality))
        /\ Cardinality(PrintedKeys) = Len(printed)
        /\ \A i \in DOMAIN printed :
               /\ printed[i][1] \in DOMAIN centrality
               /\ printed[i][2] = centrality[printed[i][1]]
        /\ \A i, j \in DOMAIN printed : i < j => printed[i][2] >= printed[j][2]
        /\ \A i \in DOMAIN printed :
               \A k \in DOMAIN centrality \ PrintedKeys :
                   printed[i][2] >= centrality[k]

\* More than ten entries, of different scores, one of them left out.
C8_Witness ==
    /\ pc = "topDone"
    /\ Cardinality(DOMAIN centrality) > TopK
    /\ Len(printed) = TopK
    /\ printed[1][2] > printed[TopK][2]
    /\ \E k \in DOMAIN centrality \ PrintedKeys : centrality[k] < printed[1][2]

=============================================================================
